---- MODULE Spec2Model ----
(***************************************************************************)
(* Model of app/visualize.py: the two chart routes (moving_avg, exit_pie), *)
(* the aggregation functions behind them (plot_moving_avg, plot_exit_pie,  *)
(* _exit_df), the daily file cache (_update_cache) and the parameter check *)
(* (_check_m).                                                             *)
(*                                                                         *)
(* Dates are integers (a day count); a Member row is [date, dest]; a file  *)
(* name is the sequence of its characters, so that the sweep's substring   *)
(* test is computed on the real name.                                      *)
(***************************************************************************)
EXTENDS Integers, Sequences, FiniteSets, TLC

VARIABLES today, db, files, reqs, call

vars == <<today, db, files, reqs, call>>

(***************************************************************************)
(* Bounds of the model.                                                    *)
(***************************************************************************)
\* Number of requests in a behaviour of the cache specification.
NumReq == 2
\* Days in the (scaled-down) year: day-of-year runs over 1..YearLen.
YearLen == 12
\* Rows the Member table holds at most in the aggregation specification.
MaxRecords == 2

\* The anchor offset of plot_moving_avg and plot_exit_pie.
AnchorOffset == 180

Categories ==
    {"Permanent Exit", "Temporary Exit", "Transitional Housing",
     "Emergency Shelter", "Unknown/Other"}

(***************************************************************************)
(* Python helpers.                                                         *)
(***************************************************************************)
Max2(a, b) == IF a >= b THEN a ELSE b

RECURSIVE Gcd(_, _)
Gcd(a, b) == IF b = 0 THEN a ELSE Gcd(b, a % b)

\* The float a / b (b > 0), kept exact as a reduced fraction.
Ratio(a, b) == [num |-> a \div Gcd(a, b), den |-> b \div Gcd(a, b)]

Zero == [num |-> 0, den |-> 1]

\* range(0, stop, step) of Python, step # 0, as a sequence.
RECURSIVE RangeFrom(_, _, _)
RangeFrom(i, stop, step) ==
    IF (step > 0 /\ i < stop) \/ (step < 0 /\ i > stop)
    THEN <<i>> \o RangeFrom(i + step, stop, step)
    ELSE <<>>

PyRange(stop, step) == RangeFrom(0, stop, step)

DigitChar(d) == <<"0", "1", "2", "3", "4", "5", "6", "7", "8", "9">>[d + 1]

RECURSIVE NatStr(_)
NatStr(n) == IF n < 10 THEN <<DigitChar(n)>>
             ELSE NatStr(n \div 10) \o <<DigitChar(n % 10)>>

\* str(n) of an int, inside an f-string.
IntStr(n) == IF n < 0 THEN <<"-">> \o NatStr(-n) ELSE NatStr(n)

\* `needle in hay` on strings.
IsSubstring(needle, hay) ==
    \E k \in 0..(Len(hay) - Len(needle)) :
        \A j \in 1..Len(needle) : hay[k + j] = needle[j]

\* tm_mon read in place of tm_yday (months of 30 days).
MonthOfYear(t) == ((t % YearLen) \div 30) + 1

\* date.today().timetuple().tm_yday
DayOfYear(t) == (t % YearLen) + 1

(***************************************************************************)
(* _check_m                                                                *)
(***************************************************************************)
\* A range test in place of the two accepted values.
CheckMRange(m) == m >= 90 /\ m <= 365

CheckM(m) == m = 90 \/ m = 365

(***************************************************************************)
(* _exit_df: the rows of Member with first < date_of_exit <= last.         *)
(***************************************************************************)
InRange(row, first, last) == row.date > first /\ row.date <= last

ExitDf(table, first, last) ==
    SelectSeq(table, LAMBDA row : InRange(row, first, last))

\* df['dest'].unique()
UniqueDests(df) == {df[i].dest : i \in DOMAIN df}

\* sub[sub['dest'] == dest].shape[0]
CountDest(sub, dest) == Len(SelectSeq(sub, LAMBDA row : row.dest = dest))

(***************************************************************************)
(* plot_moving_avg                                                         *)
(***************************************************************************)
\* STEP = days_back//90 or 1
Step(days_back) == IF days_back \div 90 # 0 THEN days_back \div 90 ELSE 1

Last(t) == t - AnchorOffset

\* df[(df['date'] > start) & (df['date'] <= end)]
Sub(df, start, end) == SelectSeq(df, LAMBDA row : InRange(row, start, end))

\* The per-category counts taken over the whole frame, not the bucket.
BucketCountsFrame(df, dests, m, last, i) ==
    LET end == last - i
        start == end - m
        sub == Sub(df, start, end)
        n_exits == Len(sub)
    IN  IF n_exits = 0
        THEN [err |-> "ZeroDivisionError", end |-> end, n |-> 0,
              breakdown |-> [d \in {} |-> Zero]]
        ELSE [err |-> "none", end |-> end, n |-> n_exits,
              breakdown |-> [d \in dests |-> Ratio(CountDest(df, d), n_exits)]]

\* One pass of the loop body; the division raises when n_exits is 0.
Bucket(df, dests, m, last, i) ==
    LET end == last - i
        start == end - m
        sub == Sub(df, start, end)
        n_exits == Len(sub)
    IN  IF n_exits = 0
        THEN [err |-> "ZeroDivisionError", end |-> end, n |-> 0,
              breakdown |-> [d \in {} |-> Zero]]
        ELSE [err |-> "none", end |-> end, n |-> n_exits,
              breakdown |-> [d \in dests |-> Ratio(CountDest(sub, d), n_exits)]]

\* The loop: rows appended in order of i, stopped by the first exception.
Moving(df, dests, m, last, is) ==
    LET bs == [k \in DOMAIN is |-> Bucket(df, dests, m, last, is[k])]
        bad == {k \in DOMAIN is : bs[k].err # "none"}
    IN  IF bad # {}
        THEN [err |-> bs[CHOOSE k \in bad : \A j \in bad : k <= j].err,
              rows |-> <<>>]
        ELSE [err |-> "none",
              rows |-> [k \in DOMAIN is |->
                           [end |-> bs[k].end, breakdown |-> bs[k].breakdown]]]

\* The figure, or the exception the function raises.
PlotMovingAvg(table, m, days_back, t) ==
    LET last == Last(t)
        first == last - (m + days_back)
        df == ExitDf(table, first, last)
    IN  IF df = <<>>
        THEN [err |-> "KeyError", chart |-> "line", m |-> m, rows |-> <<>>]
        ELSE LET mv == Moving(df, UniqueDests(df), m, last,
                              PyRange(days_back, Step(days_back)))
             IN  [err |-> mv.err, chart |-> "line", m |-> m, rows |-> mv.rows]

(***************************************************************************)
(* plot_exit_pie: one slice entry per fetched row.                         *)
(***************************************************************************)
PlotExitPie(table, m, t) ==
    LET last == Last(t)
        first == last - m
        df == ExitDf(table, first, last)
    IN  IF df = <<>>
        THEN [err |-> "ValueError", chart |-> "pie", m |-> m, rows |-> <<>>]
        ELSE [err |-> "none", chart |-> "pie", m |-> m,
              rows |-> [i \in DOMAIN df |-> [dest |-> df[i].dest, count |-> 1]]]

(***************************************************************************)
(* State.                                                                  *)
(*   today  the current date                                               *)
(*   db     the Member table, as the sequence of its rows                  *)
(*   files  the cache directory: file name -> content                      *)
(*   reqs   the requests, each with its position and its locals            *)
(*   call   the last direct call of an aggregation function and its result *)
(***************************************************************************)
NoCall == [fn |-> "none"]

NoFig == [err |-> "none", chart |-> "none", m |-> 0, rows |-> <<>>]

NewReq ==
    [pc |-> "new", kind |-> "none", m |-> 0, days_back |-> 0, DoY |-> 0,
     path |-> <<>>, fig |-> NoFig, status |-> 0, err |-> "none",
     day |-> 0, queried |-> FALSE, opened |-> FALSE, scheduled |-> FALSE,
     after |-> {}, served |-> 0, servedDay |-> 0, servedFor |-> 0,
     ino |-> 0, taskErr |-> "none", todo |-> {}]

Requests == 1..NumReq

(***************************************************************************)
(* The cache directory.  A file is [ino, complete, fig, by, wday, rday]:   *)
(* the inode (named after the request whose open created it), whether the  *)
(* text is a whole JSON document, the figure it encodes, and as history    *)
(* the request that wrote the text, the date of that write and the date    *)
(* on which that request arrived.                                          *)
(***************************************************************************)
NoFiles == [n \in {} |-> 0]

Json == <<".", "j", "s", "o", "n">>

\* f'MA{m}-{days_back}-d{DoY}.json'
MovingAvgName(m, days_back, DoY) ==
    <<"M", "A">> \o IntStr(m) \o <<"-">> \o IntStr(days_back)
        \o <<"-", "d">> \o IntStr(DoY) \o Json

\* f'PIE{m}-d{DoY}.json'
PieName(m, DoY) ==
    <<"P", "I", "E">> \o IntStr(m) \o <<"-", "d">> \o IntStr(DoY) \o Json

\* f'd{DoY}' not in file.name
IsOutdated(DoY, name) == ~IsSubstring(<<"d">> \o IntStr(DoY), name)

\* The length of the JSON text of a figure grows with its entries.
RECURSIVE Entries(_)
Entries(rows) ==
    IF rows = <<>> THEN 0
    ELSE (IF "breakdown" \in DOMAIN Head(rows)
          THEN Cardinality(DOMAIN Head(rows).breakdown) ELSE 1)
         + Entries(Tail(rows))

Size(fig) == Entries(fig.rows)

Exists(path) == path \in DOMAIN files

Remove(path) == [n \in (DOMAIN files) \ {path} |-> files[n]]

Store(path, content) ==
    [n \in (DOMAIN files) \cup {path} |-> IF n = path THEN content ELSE files[n]]

\* try: open + json.load.  "hit", "miss" (FileNotFoundError) or the
\* exception json.load raises on a text that is no JSON document.
ReadCache(path) ==
    IF ~Exists(path) THEN "miss"
    ELSE IF files[path].complete THEN "hit"
    ELSE "JSONDecodeError"

(***************************************************************************)
(* The routes.  A handler is an async function without an await: it runs   *)
(* as one step.                                                            *)
(***************************************************************************)
\* raise HTTPException(status_code=404, ...)
Rejected(req, kind, m, days_back) ==
    [req EXCEPT !.pc = "rejected", !.kind = kind, !.m = m,
                !.days_back = days_back,
                !.status = 404, !.err = "Not found. Try m=90 or m=365"]

\* The cached text is read but a recomputed figure is returned.
HitRecomputed(req) ==
    [req EXCEPT !.pc = "hit", !.opened = TRUE, !.status = 200,
                !.fig = IF req.kind = "MA"
                        THEN PlotMovingAvg(db, req.m, req.days_back, today)
                        ELSE PlotExitPie(db, req.m, today),
                !.served = files[req.path].by,
                !.servedDay = files[req.path].wday,
                !.servedFor = files[req.path].rday]

\* The hit path also schedules _update_cache.
HitSchedules(req) ==
    [req EXCEPT !.pc = "queued", !.opened = TRUE, !.scheduled = TRUE,
                !.status = 200,
                !.fig = files[req.path].fig, !.served = files[req.path].by,
                !.servedDay = files[req.path].wday,
                !.servedFor = files[req.path].rday]

\* fig = json.load(f); return fig
Hit(req) ==
    [req EXCEPT !.pc = "hit", !.opened = TRUE, !.status = 200,
                !.fig = files[req.path].fig, !.served = files[req.path].by,
                !.servedDay = files[req.path].wday,
                !.servedFor = files[req.path].rday]

\* json.load raises: the exception leaves the handler.
ReadError(req, e) ==
    [req EXCEPT !.pc = "error", !.opened = TRUE, !.status = 500, !.err = e]

\* The plot function raises: the exception leaves the handler.
ComputeError(req, e) ==
    [req EXCEPT !.pc = "error", !.opened = TRUE, !.queried = TRUE,
                !.status = 500, !.err = e]

\* _update_cache called in the handler, before the figure is returned.
MissInline(req, fig) ==
    [req EXCEPT !.pc = "queued", !.opened = TRUE, !.queried = TRUE,
                !.scheduled = TRUE, !.fig = fig]

\* after_response.add_task(_update_cache, ...); return fig
Miss(req, fig) ==
    [req EXCEPT !.pc = "queued", !.opened = TRUE, !.queried = TRUE,
                !.scheduled = TRUE, !.status = 200, !.fig = fig]

\* The body of a route after _check_m passed.
Serve(req, kind, m, days_back, path, result) ==
    LET q == [req EXCEPT !.kind = kind, !.m = m, !.days_back = days_back,
                         !.day = today, !.DoY = DayOfYear(today), !.path = path,
                         !.after = {p \in Requests : reqs[p].pc = "done"}]
        got == ReadCache(path)
    IN  IF got = "hit" THEN Hit(q)
        ELSE IF got # "miss" THEN ReadError(q, got)
        ELSE IF result.err # "none" THEN ComputeError(q, result.err)
        ELSE Miss(q, result)

\* Requests are numbered in the order of their arrival.
Arrives(r) ==
    /\ reqs[r].pc = "new"
    /\ \A q \in Requests : q < r => reqs[q].pc # "new"

\* GET /exit-moving-avg/{m}/{days_back}
MovingAvg(r, m, days_back) ==
    /\ Arrives(r)
    /\ reqs' = [reqs EXCEPT ![r] =
          IF ~CheckM(m) THEN Rejected(@, "MA", m, days_back)
          ELSE Serve(@, "MA", m, days_back,
                     MovingAvgName(m, days_back, DayOfYear(today)),
                     PlotMovingAvg(db, m, days_back, today))]
    /\ UNCHANGED <<today, db, files, call>>

\* GET /exit-pie/{m}
ExitPie(r, m) ==
    /\ Arrives(r)
    /\ reqs' = [reqs EXCEPT ![r] =
          IF ~CheckM(m) THEN Rejected(@, "PIE", m, 0)
          ELSE Serve(@, "PIE", m, 0, PieName(m, DayOfYear(today)),
                     PlotExitPie(db, m, today))]
    /\ UNCHANGED <<today, db, files, call>>

(***************************************************************************)
(* _update_cache, run in a worker thread after the response: each of its   *)
(* file-system calls is a step.                                            *)
(***************************************************************************)
\* open(cache_path, 'w'): creates the file or truncates the existing one.
TaskOpen(r) ==
    /\ reqs[r].pc = "queued"
    /\ LET path == reqs[r].path
           ino == IF Exists(path) THEN files[path].ino ELSE r
       IN  /\ files' = Store(path, [ino |-> ino, complete |-> FALSE, fig |-> NoFig,
                                    by |-> r, wday |-> today,
                                    rday |-> reqs[r].day])
           /\ reqs' = [reqs EXCEPT ![r].pc = "dump", ![r].ino = ino]
    /\ UNCHANGED <<today, db, call>>

\* open(cache_path, 'w') raises (no directory, no permission): the task ends.
TaskOpenFails(r) ==
    /\ reqs[r].pc = "queued"
    /\ reqs' = [reqs EXCEPT ![r].pc = "failed", ![r].taskErr = "OSError"]
    /\ UNCHANGED <<today, db, files, call>>

\* What the file holds once this writer's text is flushed from offset 0: the
\* text replaces what is there, and a longer text written meanwhile by another
\* writer keeps its tail.
Flushed(old, r, fig) ==
    IF old.complete /\ old.fig # fig /\ Size(old.fig) > Size(fig)
    THEN [old EXCEPT !.complete = FALSE, !.fig = NoFig, !.by = r.id,
                     !.wday = today, !.rday = r.day]
    ELSE [old EXCEPT !.complete = TRUE, !.fig = fig, !.by = r.id,
                     !.wday = today, !.rday = r.day]

\* json.dump(fig, f) and the close of the with block.
TaskDump(r) ==
    /\ reqs[r].pc = "dump"
    /\ LET path == reqs[r].path
       IN  files' = IF Exists(path) /\ files[path].ino = reqs[r].ino
                    THEN Store(path, Flushed(files[path],
                                             [id |-> r, day |-> reqs[r].day],
                                             reqs[r].fig))
                    ELSE files
    /\ reqs' = [reqs EXCEPT ![r].pc = "scan"]
    /\ UNCHANGED <<today, db, call>>

\* os.scandir(PLOT_CACHE_DIR): the entries the loop will visit.
TaskScan(r) ==
    /\ reqs[r].pc = "scan"
    /\ reqs' = [reqs EXCEPT ![r].pc = "sweep", ![r].todo = DOMAIN files]
    /\ UNCHANGED <<today, db, files, call>>

\* One pass of the loop: os.remove raises when the file is gone.
TaskSweep(r, name) ==
    /\ reqs[r].pc = "sweep"
    /\ name \in reqs[r].todo
    /\ IF ~IsOutdated(reqs[r].DoY, name)
       THEN /\ reqs' = [reqs EXCEPT ![r].todo = @ \ {name}]
            /\ files' = files
       ELSE IF Exists(name)
       THEN /\ reqs' = [reqs EXCEPT ![r].todo = @ \ {name}]
            /\ files' = Remove(name)
       ELSE /\ reqs' = [reqs EXCEPT ![r].pc = "failed",
                                    ![r].taskErr = "FileNotFoundError"]
            /\ files' = files
    /\ UNCHANGED <<today, db, call>>

\* The loop is over: _update_cache returns.
TaskReturn(r) ==
    /\ reqs[r].pc = "sweep"
    /\ reqs[r].todo = {}
    /\ reqs' = [reqs EXCEPT ![r].pc = "done"]
    /\ UNCHANGED <<today, db, files, call>>

\* Time passes: k days later.
AdvanceDay(k) ==
    /\ today' = today + k
    /\ UNCHANGED <<db, files, reqs, call>>

\* The Member table gains a row (the record source is not owned by this code).
Insert(row) ==
    /\ db' = Append(db, row)
    /\ call' = NoCall
    /\ UNCHANGED <<today, files, reqs>>

\* plot_moving_avg(session, m, days_back), called on the current table.
CallPlotMovingAvg(m, days_back) ==
    /\ call' = [fn |-> "plot_moving_avg", m |-> m, days_back |-> days_back,
                result |-> PlotMovingAvg(db, m, days_back, today)]
    /\ UNCHANGED <<today, db, files, reqs>>

\* plot_exit_pie(session, m), called on the current table.
CallPlotExitPie(m) ==
    /\ call' = [fn |-> "plot_exit_pie", m |-> m, days_back |-> 0,
                result |-> PlotExitPie(db, m, today)]
    /\ UNCHANGED <<today, db, files, reqs>>

(***************************************************************************)
(* The aggregation specification: the table is built from rows around the  *)
(* window edges, then an aggregation function is applied to it.            *)
(***************************************************************************)
AggToday == AnchorOffset + 400

\* Distances of a row's exit date from the anchor date `last`.
AggOffsets == {-1, 0, 1, 89, 90, 178}

AggRows ==
    {[date |-> Last(AggToday) - o, dest |-> c] : o \in AggOffsets, c \in Categories}

AggDaysBack == {-90, -1, 0, 1, 2, 180}

InitAgg ==
    /\ today = AggToday
    /\ db = <<>>
    /\ files = NoFiles
    /\ reqs = [r \in Requests |-> NewReq]
    /\ call = NoCall

NextAgg ==
    \/ \E row \in AggRows : Len(db) < MaxRecords /\ Insert(row)
    \/ \E m \in {90, 365}, days_back \in AggDaysBack : CallPlotMovingAvg(m, days_back)
    \/ \E m \in {90, 365} : CallPlotExitPie(m)

SpecAgg == InitAgg /\ [][NextAgg]_vars

(***************************************************************************)
(* The cache specification: NumReq requests arrive on the first day of a   *)
(* year, on its last day or on the first day of the next year, the table   *)
(* grows row by row, and the deferred cache updates interleave.  The       *)
(* directory starts empty or with a file an earlier run of the service     *)
(* left behind.                                                            *)
(***************************************************************************)
\* The dates on which the clock is read.
ObservedDays == {0, YearLen - 1, YearLen}

\* A pie chart cached on day-of-year 5 of the year before.
Leftover ==
    [n \in {PieName(90, 5)} |->
        [ino |-> 0, complete |-> TRUE, by |-> 0, wday |-> 4 - YearLen,
         rday |-> 4 - YearLen,
         fig |-> [err |-> "none", chart |-> "pie", m |-> 90,
                  rows |-> <<[dest |-> "Permanent Exit", count |-> 1]>>]]]

\* The rows the table gains, in this order; both lie in every bucket asked for.
CacheScript ==
    <<[date |-> Last(0) - 1, dest |-> "Permanent Exit"],
      [date |-> Last(0) - 1, dest |-> "Unknown/Other"]>>

\* The values of m and days_back the requests carry.
ReqM == {90, 365, 100}
ReqDaysBack == {1}

Init ==
    /\ today = 0
    /\ db = <<>>
    /\ files \in {NoFiles, Leftover}
    /\ reqs = [r \in Requests |-> NewReq]
    /\ call = NoCall

Next ==
    \/ \E r \in Requests, m \in ReqM, days_back \in ReqDaysBack : MovingAvg(r, m, days_back)
    \/ \E r \in Requests, m \in ReqM : ExitPie(r, m)
    \/ \E r \in Requests : TaskOpen(r)
    \/ \E r \in Requests : TaskOpenFails(r)
    \/ \E r \in Requests : TaskDump(r)
    \/ \E r \in Requests : TaskScan(r)
    \/ \E r \in Requests : \E name \in reqs[r].todo : TaskSweep(r, name)
    \/ \E r \in Requests : TaskReturn(r)
    \/ \E d \in ObservedDays : d > today /\ AdvanceDay(d - today)
    \/ Len(db) < Len(CacheScript) /\ Insert(CacheScript[Len(db) + 1])

Spec == Init /\ [][Next]_vars

(***************************************************************************)
(* The notions of the aggregation properties, stated on the whole          *)
(* table rather than on the fetched frame.                                 *)
(***************************************************************************)
\* The rows of the table with end - m < exit date <= end.
WindowRows(table, end, m) ==
    SelectSeq(table, LAMBDA row : row.date > end - m /\ row.date <= end)

\* count(category in bucket) / count(bucket) if count(bucket) > 0 else 0
Proportion(table, end, m, c) ==
    LET w == WindowRows(table, end, m)
    IN  IF Len(w) = 0 THEN Zero
        ELSE Ratio(Len(SelectSeq(w, LAMBDA row : row.dest = c)), Len(w))

\* i in 0, step, 2*step, ... < daysBack with step = max(1, daysBack // 90)
Schedule(days_back) == PyRange(days_back, Max2(1, days_back \div 90))

IsMovingCall == call.fn = "plot_moving_avg"
IsPieCall == call.fn = "plot_exit_pie"

\* A category's value in a computed row: "absent" when the row has no entry.
ValueOf(row, c) ==
    IF c \in DOMAIN row.breakdown THEN row.breakdown[c] ELSE [num |-> -1, den |-> 1]

\* Some bucket of the schedule has no record.
SomeBucketEmpty ==
    \E k \in DOMAIN Schedule(call.days_back) :
        Len(WindowRows(db, Last(today) - Schedule(call.days_back)[k], call.m)) = 0

(***************************************************************************)
(* C4. Zero matching records is not a fault: when a bucket of              *)
(* plot_moving_avg has no record, or plot_exit_pie fetches no record, the  *)
(* call completes without an error and every category of that bucket has   *)
(* value 0.                                                                *)
(***************************************************************************)
C4_ZeroRecordsNoFault ==
    /\ (IsMovingCall /\ SomeBucketEmpty) =>
          /\ call.result.err = "none"
          /\ Len(call.result.rows) = Len(Schedule(call.days_back))
          /\ \A k \in DOMAIN call.result.rows :
                Len(WindowRows(db, call.result.rows[k].end, call.m)) = 0 =>
                    \A c \in Categories : ValueOf(call.result.rows[k], c) = Zero
    /\ (IsPieCall /\ Len(WindowRows(db, Last(today), call.m)) = 0) =>
          /\ call.result.err = "none"
          /\ call.result.rows = <<>>

(***************************************************************************)
(* C9. Fill-missing-with-zero: every row plot_moving_avg computes has an   *)
(* entry for each of the five categories, 0 for a category without a       *)
(* record in the bucket or in the whole fetched range.                     *)
(***************************************************************************)
C9_EveryCategoryInEveryBucket ==
    (IsMovingCall /\ call.result.err = "none") =>
        \A k \in DOMAIN call.result.rows :
            \A c \in Categories :
                /\ c \in DOMAIN call.result.rows[k].breakdown
                /\ Proportion(db, call.result.rows[k].end, call.m, c) = Zero
                      => ValueOf(call.result.rows[k], c) = Zero

(***************************************************************************)
(* C10. Bucket membership is exact: for days_back >= 0 and every index i   *)
(* of the schedule, plot_moving_avg computes the bucket ending at last - i *)
(* from exactly the rows of the table with end - m < date <= end, so each  *)
(* category's value is its share of those rows (0.5, 0.5 and 0 for the     *)
(* others when the window holds one Permanent Exit and one Unknown/Other). *)
(***************************************************************************)
C10_BucketMembershipExact ==
    (IsMovingCall /\ call.days_back >= 0) =>
        LET sched == Schedule(call.days_back)
            rows == call.result.rows
        IN  /\ Len(rows) = Len(sched)
            /\ \A k \in DOMAIN rows :
                  /\ rows[k].end = Last(today) - sched[k]
                  /\ \A c \in Categories :
                        ValueOf(rows[k], c) = Proportion(db, rows[k].end, call.m, c)

(***************************************************************************)
(* The notions of the cache properties.                                    *)
(***************************************************************************)
IsSuffix(tail, name) ==
    /\ Len(tail) <= Len(name)
    /\ \A j \in 1..Len(tail) : name[Len(name) - Len(tail) + j] = tail[j]

\* The file is named ...-d<D>.json.
RefersToDay(name, D) == IsSuffix(<<"-", "d">> \o IntStr(D) \o Json, name)

\* Two dates with the same day-of-year.
SameDayOfYear(a, b) == (a - b) % YearLen = 0

\* The request has been answered with a figure.
Answered(r) == reqs[r].status = 200

\* _update_cache has begun for the request.
TaskBegun == {"dump", "scan", "sweep", "done", "failed"}

(***************************************************************************)
(* C1. Cache self-expiry: when the cache update of a request of day-of-    *)
(* year D' returns, and the request arrived after the update of a request  *)
(* of another day-of-year D had returned, the directory holds no file      *)
(* named ...-d<D>.json.                                                    *)
(***************************************************************************)
C1_CacheSelfExpiry ==
    [][\A r \in Requests :
          (reqs[r].pc = "sweep" /\ reqs'[r].pc = "done") =>
              \A q \in reqs[r].after :
                  reqs[q].DoY # reqs[r].DoY =>
                      \A n \in DOMAIN files' : ~RefersToDay(n, reqs[q].DoY)]_vars

(***************************************************************************)
(* C2. Cache read failures degrade to a miss: a request whose cache read   *)
(* did not yield a figure recomputes; no request ends with an error that   *)
(* the cache read raised.                                                  *)
(***************************************************************************)
C2_ReadFailureIsMiss ==
    \A r \in Requests :
        (reqs[r].opened /\ reqs[r].pc # "hit") =>
            /\ reqs[r].queried
            /\ reqs[r].err # "JSONDecodeError"

(***************************************************************************)
(* C3. Invalid window length is rejected first: a request with m outside   *)
(* {90, 365} ends with status 404 and the detail "Not found. Try m=90 or   *)
(* m=365" and never queries the table, reads the cache or schedules or     *)
(* runs a cache update; a request with m in {90, 365} is not rejected.     *)
(***************************************************************************)
C3_InvalidMRejectedFirst ==
    \A r \in Requests :
        reqs[r].pc # "new" =>
            IF reqs[r].m \in {90, 365}
            THEN reqs[r].status # 404 /\ reqs[r].pc # "rejected"
            ELSE /\ reqs[r].pc = "rejected"
                 /\ reqs[r].status = 404
                 /\ reqs[r].err = "Not found. Try m=90 or m=365"
                 /\ ~reqs[r].queried /\ ~reqs[r].opened /\ ~reqs[r].scheduled
                 /\ \A n \in DOMAIN files : files[n].by # r /\ files[n].ino # r

C3_Witness ==
    \E r, q \in Requests :
        /\ reqs[r].pc = "rejected" /\ reqs[r].m = 100
        /\ reqs[q].m = 365 /\ reqs[q].pc = "done"

(***************************************************************************)
(* C5. Idempotence within a day, as specified: two answered moving-average *)
(* requests with the same m and days_back made on the same day return the  *)
(* same figure, the second served from the entry the first wrote.          *)
(***************************************************************************)
SameCall(r, q) ==
    /\ reqs[r].kind = "MA" /\ reqs[q].kind = "MA"
    /\ Answered(r) /\ Answered(q)
    /\ reqs[r].m = reqs[q].m /\ reqs[r].days_back = reqs[q].days_back
    /\ reqs[r].day = reqs[q].day

C6_ServedOnlySameCalendarDay ==
    \A r \in Requests :
        reqs[r].pc = "hit" => reqs[r].servedDay = reqs[r].day

(***************************************************************************)
(* C6, amended. A request is served from the cache only by a file written  *)
(* for a request of the same day-of-year, of this year or an earlier one;  *)
(* a file written for another day-of-year never serves it.                 *)
(***************************************************************************)
C6_ServedOnlySameDayOfYear ==
    \A r \in Requests :
        reqs[r].pc = "hit" => SameDayOfYear(reqs[r].servedFor, reqs[r].day)

\* A request served by a file of the year before.
C6_Witness ==
    \E r \in Requests :
        reqs[r].pc = "hit" /\ reqs[r].servedFor # reqs[r].day

(***************************************************************************)
(* C7. Concurrent sweeps are safe: no sweep raises on a file that another  *)
(* sweep has already deleted.                                              *)
(***************************************************************************)
C7_ConcurrentSweepsSafe ==
    \A r \in Requests : reqs[r].taskErr # "FileNotFoundError"

(***************************************************************************)
(* C8. The cache update is deferred and cannot affect the response: the    *)
(* update of a request begins only after the request was answered with its *)
(* figure, and no step taken after the answer, a failing update included,  *)
(* changes the figure, the status or the error of the request.             *)
(***************************************************************************)
C8_UpdateDeferred ==
    [][\A r \in Requests :
          /\ reqs'[r].pc \in TaskBegun =>
                reqs'[r].status = 200 /\ reqs'[r].err = "none"
          /\ reqs[r].status # 0 =>
                /\ reqs'[r].status = reqs[r].status
                /\ reqs'[r].fig = reqs[r].fig
                /\ reqs'[r].err = reqs[r].err]_vars

\* An update failed in its sweep; the request keeps the answer it was given.
C8_Witness ==
    \E r \in Requests :
        /\ reqs[r].pc = "failed" /\ reqs[r].taskErr = "FileNotFoundError"
        /\ Answered(r) /\ reqs[r].fig.err = "none"

(***************************************************************************)
(* C11. Bucket schedule: for days_back >= 0 plot_moving_avg computes one   *)
(* bucket per i in 0, step, 2*step, ... < days_back with step =            *)
(* max(1, days_back // 90), that is ceil(days_back / step) buckets, in     *)
(* order of strictly descending end date from end = last; days_back = 180  *)
(* gives 90 buckets, and days_back = 0 gives no bucket and no error.       *)
(***************************************************************************)
C11_BucketSchedule ==
    (IsMovingCall /\ call.days_back >= 0) =>
        LET step == Max2(1, call.days_back \div 90)
            sched == Schedule(call.days_back)
            rows == call.result.rows
        IN  /\ call.result.err = "none"
            /\ Len(rows) = Len(sched)
            /\ Len(rows) = (call.days_back + step - 1) \div step
            /\ call.days_back = 180 => Len(rows) = 90
            /\ \A k \in DOMAIN rows : rows[k].end = Last(today) - sched[k]
            /\ \A k \in DOMAIN rows : k > 1 => rows[k].end < rows[k - 1].end

\* The records of the bucket ending at `end`, as the call selects them.
BucketRows(table, m, days_back, t, end) ==
    Sub(ExitDf(table, Last(t) - (m + days_back), Last(t)), end - m, end)

\* Sum over the categories S of the counts behind the proportions of a
\* bucket of n records.
RECURSIVE SumCounts(_, _, _)
SumCounts(breakdown, S, n) ==
    IF S = {} THEN 0
    ELSE LET c == CHOOSE x \in S : TRUE
         IN  breakdown[c].num * (n \div breakdown[c].den)
                 + SumCounts(breakdown, S \ {c}, n)

(***************************************************************************)
(* C12. Proportions are a partition: in every computed bucket with at      *)
(* least one record the per-category counts behind the breakdown sum to    *)
(* the bucket's record count, so the proportions sum to 1, and every       *)
(* proportion lies in [0, 1].                                              *)
(***************************************************************************)
C12_ProportionsPartition ==
    (IsMovingCall /\ call.result.err = "none") =>
        \A k \in DOMAIN call.result.rows :
            LET row == call.result.rows[k]
                b == row.breakdown
                rows == BucketRows(db, call.m, call.days_back, today, row.end)
                n == Len(rows)
            IN  n > 0 =>
                    /\ \A c \in DOMAIN b :
                          /\ b[c].den > 0 /\ n % b[c].den = 0
                          /\ 0 <= b[c].num /\ b[c].num <= b[c].den
                          /\ b[c] = Ratio(CountDest(rows, c), n)
                    /\ SumCounts(b, DOMAIN b, n) = n

\* A computed bucket shared by two categories.
C12_Witness ==
    /\ IsMovingCall /\ call.result.err = "none"
    /\ \E k \in DOMAIN call.result.rows :
          \E c, d \in DOMAIN call.result.rows[k].breakdown :
              /\ c # d
              /\ call.result.rows[k].breakdown[c].num > 0
              /\ call.result.rows[k].breakdown[d].num > 0

(***************************************************************************)
(* C13. The sweep never deletes a current-day entry: every file removed    *)
(* from the cache directory has a name that does not refer to the          *)
(* day-of-year current at the moment of the removal, in every              *)
(* interleaving, a put that runs after a day rollover included.            *)
(***************************************************************************)
C13_SweepKeepsCurrentDay ==
    [][\A name \in (DOMAIN files) \ (DOMAIN files') :
           ~RefersToDay(name, DayOfYear(today))]_vars

(***************************************************************************)
(* C14. The stride is always at least 1: for every integer days_back,      *)
(* negative ones included, STEP equals max(1, days_back // 90) and is      *)
(* never below 1, every bucket of a computed figure ends on or before      *)
(* `last`, and days_back <= 0 yields no bucket.                            *)
(***************************************************************************)
C14_StrideAtLeastOne ==
    IsMovingCall =>
        /\ Step(call.days_back) = Max2(1, call.days_back \div 90)
        /\ Step(call.days_back) >= 1
        /\ \A k \in DOMAIN call.result.rows :
              call.result.rows[k].end <= Last(today)
        /\ (call.days_back <= 0 /\ call.result.err = "none") =>
              call.result.rows = <<>>

\* The steps of _update_cache that touch the directory start from these.
PutSteps == {"queued", "dump", "sweep"}

(***************************************************************************)
(* C15. A cache hit has no side effects: a request whose read finds a      *)
(* complete file returns that file's payload, does not query the records,  *)
(* schedules no write and no sweep, and leaves the files and their         *)
(* contents as they were; a file is created, written or deleted only by    *)
(* a step of the put scheduled by a request that missed.                   *)
(***************************************************************************)
C15_HitNoSideEffects ==
    [][/\ \A r \in Requests :
             (/\ reqs[r].pc = "new"
              /\ reqs'[r].pc \notin {"new", "rejected"}
              /\ ReadCache(reqs'[r].path) = "hit") =>
                 /\ reqs'[r].status = 200
                 /\ reqs'[r].fig = files[reqs'[r].path].fig
                 /\ ~reqs'[r].queried
                 /\ ~reqs'[r].scheduled
                 /\ reqs'[r].pc \notin PutSteps
                 /\ files' = files
                 /\ db' = db
       /\ \A r \in Requests :
             (reqs[r].pc # "new" /\ ~reqs[r].scheduled) => reqs'[r] = reqs[r]
       /\ files' # files =>
             \E r \in Requests :
                 /\ reqs'[r] # reqs[r]
                 /\ reqs[r].pc \in PutSteps
                 /\ reqs[r].queried /\ reqs[r].scheduled]_vars

\* A request answered from the cache while the directory holds its file.
C15_Witness ==
    \E r \in Requests :
        /\ reqs[r].pc = "hit" /\ reqs[r].status = 200
        /\ Exists(reqs[r].path)
        /\ reqs[r].fig = files[reqs[r].path].fig

\* Two requests for one key on one day that both missed.
RacingMisses(r, q) ==
    /\ r < q
    /\ reqs[r].scheduled /\ reqs[q].scheduled
    /\ reqs[r].path = reqs[q].path /\ reqs[r].day = reqs[q].day

(***************************************************************************)
(* C16. Racing misses on one key are last-writer-wins: when requests for   *)
(* the same key on the same day all miss, each returns the payload it      *)
(* computed, and once the deferred puts of all of them have completed the  *)
(* directory holds the file of that key with the complete payload of one   *)
(* of them, which every later request of that day for the key is served.   *)
(***************************************************************************)
C16_RacingMissesLastWriterWins ==
    \A r, q \in Requests :
        (/\ RacingMisses(r, q)
         /\ reqs[r].pc = "done" /\ reqs[q].pc = "done"
         /\ today = reqs[r].day) =>
            /\ Answered(r) /\ Answered(q)
            /\ Exists(reqs[r].path)
            /\ files[reqs[r].path].complete
            /\ files[reqs[r].path].fig \in {reqs[r].fig, reqs[q].fig}
            /\ \A p \in Requests :
                  (/\ {r, q} \subseteq reqs[p].after
                   /\ reqs[p].path = reqs[r].path
                   /\ reqs[p].day = reqs[r].day) =>
                      /\ reqs[p].pc = "hit"
                      /\ reqs[p].fig = files[reqs[r].path].fig

====
